---------------------------- MODULE Spec2Model ----------------------------
(***************************************************************************)
(* A model of server/video/synthesizer.py: the subtitle parser, the SRT -> *)
(* ASS time conversion, the segment compositor (process_single_segment)    *)
(* and the sequence synthesizer (synthesize_video).                        *)
(*                                                                         *)
(* Text is modelled as sequences of one-character strings.  Python floats  *)
(* are IEEE-754 doubles; they are modelled exactly, as binary fixed-point  *)
(* numbers held as little-endian bit sequences and rounded to 53           *)
(* significant bits (round-half-to-even) where the hardware rounds.        *)
(***************************************************************************)
EXTENDS Integers, Sequences, FiniteSets, TLC

(***************************************************************************)
(* Part 1.  Exact naturals as little-endian bit sequences.                 *)
(***************************************************************************)

\* Significand width of a Python float (IEEE-754 binary64).
MantBits == 53

\* Binary places kept below the point.  ms / 1000.0 >= 2^-10 for ms >= 1, so
\* a 53-bit significand needs no more than 62 fractional places; more change
\* nothing.
FracBits == 62

\* Extra places carried by the division so that a round bit always exists.
GuardBits == 2

\* Width of the digits the exact arithmetic below carries at a time.
LimbBits == 15

LimbBase == 2 ^ LimbBits

Max(S) == CHOOSE m \in S : \A n \in S : n <= m

Min(S) == CHOOSE m \in S : \A n \in S : m <= n

Zeros(n) == [i \in 1..n |-> 0]

\* Drop the high-order zero bits.
Norm(x) ==
    LET ones == {i \in 1..Len(x) : x[i] = 1}
    IN  IF ones = {} THEN <<>> ELSE SubSeq(x, 1, Max(ones))

\* The bits of a small natural.
RECURSIVE Bits(_)
Bits(n) == IF n = 0 THEN <<>> ELSE <<n % 2>> \o Bits(n \div 2)

\* The value of a short bit sequence.
RECURSIVE ToInt(_)
ToInt(x) == IF x = <<>> THEN 0 ELSE Head(x) + 2 * ToInt(Tail(x))

\* x * 2^n.
ShiftLeft(x, n) == IF x = <<>> THEN <<>> ELSE Zeros(n) \o x

\* floor(x / 2^n).
ShiftRight(x, n) == IF Len(x) <= n THEN <<>> ELSE SubSeq(x, n + 1, Len(x))

\* x mod 2^n.
LowBits(x, n) == Norm(IF Len(x) <= n THEN x ELSE SubSeq(x, 1, n))

\* x + 1.
Inc(x) ==
    LET zs == {i \in 1..Len(x) : x[i] = 0}
    IN  IF zs = {} THEN Zeros(Len(x)) \o <<1>>
        ELSE [i \in 1..Len(x) |->
                IF i < Min(zs) THEN 0 ELSE IF i = Min(zs) THEN 1 ELSE x[i]]

\* A bit sequence as base-LimbBase digits, low digit first, and back.
Limbs(x) ==
    [j \in 1..((Len(x) + LimbBits - 1) \div LimbBits) |->
        ToInt(SubSeq(x, (j - 1) * LimbBits + 1,
                     IF j * LimbBits < Len(x) THEN j * LimbBits ELSE Len(x)))]

Unlimbs(d) ==
    Norm([i \in 1..(LimbBits * Len(d)) |->
            (d[((i - 1) \div LimbBits) + 1] \div (2 ^ ((i - 1) % LimbBits))) % 2])

RECURSIVE AddC(_, _, _)
AddC(x, y, carry) ==
    IF x = <<>> /\ y = <<>> THEN (IF carry = 0 THEN <<>> ELSE <<carry>>)
    ELSE LET a == IF x = <<>> THEN 0 ELSE Head(x)
             b == IF y = <<>> THEN 0 ELSE Head(y)
             t == a + b + carry
         IN  <<t % LimbBase>> \o AddC(IF x = <<>> THEN <<>> ELSE Tail(x),
                                      IF y = <<>> THEN <<>> ELSE Tail(y),
                                      t \div LimbBase)

\* x + y.
Add(x, y) == Unlimbs(AddC(Limbs(x), Limbs(y), 0))

RECURSIVE MulC(_, _, _)
MulC(x, c, carry) ==
    IF x = <<>> THEN (IF carry = 0 THEN <<>> ELSE <<carry>>)
    ELSE LET t == Head(x) * c + carry
         IN  <<t % LimbBase>> \o MulC(Tail(x), c, t \div LimbBase)

\* x * c for a natural c < LimbBase.
MulSmall(x, c) == Unlimbs(MulC(Limbs(x), c, 0))

\* Long division of the digits x by a natural 0 < d < LimbBase, from the
\* high end: quotient digits and remainder.
RECURSIVE DivC(_, _)
DivC(x, d) ==
    IF x = <<>> THEN [q |-> <<>>, r |-> 0]
    ELSE LET hi == DivC(Tail(x), d)
             t  == LimbBase * hi.r + Head(x)
         IN  [q |-> <<t \div d>> \o hi.q, r |-> t % d]

\* Quotient (bits) and remainder of x by d.
DivSmall(x, d) ==
    LET qr == DivC(Limbs(x), d) IN [q |-> Unlimbs(qr.q), r |-> qr.r]

AnyOne(x) == \E i \in 1..Len(x) : x[i] = 1

\* The double nearest to the exact value x (+ something below its last bit
\* when sticky): x rounded to MantBits significant bits, ties to even.
RoundDouble(x, sticky) ==
    LET n     == Norm(x)
        shift == Len(n) - MantBits
    IN  IF shift <= 0 THEN n
        ELSE LET kept  == SubSeq(n, shift + 1, Len(n))
                 rnd   == n[shift]
                 below == sticky \/ AnyOne(SubSeq(n, 1, shift - 1))
                 up    == rnd = 1 /\ (below \/ kept[1] = 1)
             IN  Zeros(shift) \o (IF up THEN Inc(kept) ELSE kept)


(***************************************************************************)
(* Part 2.  Python floats.  A non-negative float is the bit sequence of    *)
(* its value in units of 2^-FracBits.                                      *)
(***************************************************************************)

\* float(n) for a natural n below 2^53.
FloatOfInt(n) == ShiftLeft(Bits(n), FracBits)

\* n / d (true division, correctly rounded) for naturals n, d with
\* n = 0 or n / d >= 2^-10.
FloatDiv(n, d) ==
    LET qr == DivSmall(ShiftLeft(Bits(n), FracBits + GuardBits), d)
    IN  ShiftRight(RoundDouble(qr.q, qr.r # 0), GuardBits)

\* x + y, rounded.
FloatAdd(x, y) == RoundDouble(Add(x, y), FALSE)

\* x * c for a small natural c, rounded.
FloatMul(x, c) == RoundDouble(MulSmall(x, c), FALSE)

\* x % 1: exact (fmod).
FloatMod1(x) == LowBits(x, FracBits)

\* int(x): truncation.
FloatToInt(x) == ToInt(ShiftRight(x, FracBits))

(***************************************************************************)
(* Part 3.  Strings: sequences of one-character strings.                   *)
(***************************************************************************)

Digits == <<"0", "1", "2", "3", "4", "5", "6", "7", "8", "9">>

IsDigit(c) == \E i \in 1..10 : Digits[i] = c

DigitVal(c) == (CHOOSE i \in 1..10 : Digits[i] = c) - 1

\* str(n) for a natural n.
RECURSIVE Str(_)
Str(n) == IF n < 10 THEN <<Digits[n + 1]>>
          ELSE Str(n \div 10) \o <<Digits[(n % 10) + 1]>>

\* format(n, "02d").
Pad2(n) == IF n < 10 THEN <<"0">> \o Str(n) ELSE Str(n)

\* format(n, "03d").
Pad3(n) == IF n < 100 THEN <<"0">> \o Pad2(n) ELSE Str(n)

\* Whether sep occurs in s at position p.
OccursAt(s, sep, p) ==
    p >= 1 /\ p + Len(sep) - 1 <= Len(s) /\ SubSeq(s, p, p + Len(sep) - 1) = sep

\* Whether the left-to-right scan of str.split takes the occurrence at p:
\* it does unless an occurrence it took earlier overlaps it.
RECURSIVE Taken(_, _, _)
Taken(s, sep, p) ==
    /\ OccursAt(s, sep, p)
    /\ \A q \in (p - Len(sep) + 1)..(p - 1) : ~Taken(s, sep, q)

\* str.split(sep): the pieces between the non-overlapping occurrences of
\* sep, found left to right.
Split(s, sep) ==
    LET cuts == {p \in 1..Len(s) : Taken(s, sep, p)}
        Nth(k) == CHOOSE p \in cuts : Cardinality({q \in cuts : q < p}) = k - 1
    IN  [k \in 1..(Cardinality(cuts) + 1) |->
            SubSeq(s,
                   IF k = 1 THEN 1 ELSE Nth(k - 1) + Len(sep),
                   IF k = Cardinality(cuts) + 1 THEN Len(s) ELSE Nth(k) - 1)]

\* sep.join(parts).
RECURSIVE Join(_, _)
Join(parts, sep) ==
    IF parts = <<>> THEN <<>>
    ELSE IF Len(parts) = 1 THEN parts[1]
    ELSE parts[1] \o sep \o Join(Tail(parts), sep)

\* str.replace(old, new).
Replace(s, old, new) == Join(Split(s, old), new)

Whitespace == {" ", "\n"}

\* str.strip().
Strip(s) ==
    LET keep == {i \in 1..Len(s) : s[i] \notin Whitespace}
    IN  IF keep = {} THEN <<>> ELSE SubSeq(s, Min(keep), Max(keep))

\* int(s) succeeds on a non-empty run of decimal digits.
IsInt(s) == s # <<>> /\ \A i \in 1..Len(s) : IsDigit(s[i])

RECURSIVE IntOf(_)
IntOf(s) == IF s = <<>> THEN 0
            ELSE 10 * IntOf(SubSeq(s, 1, Len(s) - 1)) + DigitVal(s[Len(s)])

(***************************************************************************)
(* Part 4.  Time conversion.                                               *)
(***************************************************************************)

\* What a call that raised returns.
Raised == [ok |-> FALSE]

\* srt_time_to_seconds(time_str): "HH:MM:SS,mmm" -> seconds, or raises
\* ValueError when the unpacking or an int() fails.
srt_time_to_seconds(time_str) ==
    LET parts == Split(time_str, <<",">>)
    IN  IF Len(parts) # 2 THEN Raised
        ELSE LET hms == Split(parts[1], <<":">>)
             IN  IF Len(hms) # 3 THEN Raised
                 ELSE IF ~(\A i \in 1..3 : IsInt(hms[i])) \/ ~IsInt(parts[2])
                      THEN Raised
                 ELSE LET h  == IntOf(hms[1])
                          m  == IntOf(hms[2])
                          s  == IntOf(hms[3])
                          ms == IntOf(parts[2])
                      IN  [ok |-> TRUE,
                           v  |-> FloatAdd(FloatOfInt(h * 3600 + m * 60 + s),
                                           FloatDiv(ms, 1000))]

\* The centisecond field: int((seconds % 1) * 100).
AssCentis(seconds) == FloatToInt(FloatMul(FloatMod1(seconds), 100))

\* seconds_to_ass_time(seconds): "H:MM:SS.CC".
seconds_to_ass_time(seconds) ==
    LET whole == FloatToInt(seconds)
        h  == whole \div 3600
        m  == (whole % 3600) \div 60
        s  == whole % 60
        cs == AssCentis(seconds)
    IN  Str(h) \o <<":">> \o Pad2(m) \o <<":">> \o Pad2(s) \o <<".">> \o Pad2(cs)

(***************************************************************************)
(* Part 5.  The subtitle parser and the track renderer.                    *)
(***************************************************************************)

NL == <<"\n">>

BlankLine == <<"\n", "\n">>

Arrow == <<" ", "-", "-", ">", " ">>

\* What open() of an unreadable file gives: the read raises.
Unreadable == <<"<unreadable>">>

\* BlockIsParsed with the threshold one line too low.
BlockIsParsedFromTwo(lines) == Len(lines) >= 2

\* The blocks the parser keeps: len(lines) >= 3.
BlockIsParsed(lines) == Len(lines) >= 3

\* One block of the loop of parse_srt_file: skipped, an entry, or raises
\* (the unpacking of the time line, or srt_time_to_seconds).
ParseBlock(block) ==
    LET lines == Split(block, NL)
    IN  IF ~BlockIsParsed(lines) THEN [ok |-> TRUE, skip |-> TRUE]
        ELSE LET ends == Split(lines[2], Arrow)
             IN  IF Len(ends) # 2 THEN Raised
                 ELSE LET start_time == srt_time_to_seconds(ends[1])
                          end_time   == srt_time_to_seconds(ends[2])
                      IN  IF ~start_time.ok \/ ~end_time.ok THEN Raised
                          ELSE [ok |-> TRUE, skip |-> FALSE,
                                entry |-> [start |-> start_time.v,
                                           end   |-> end_time.v,
                                           text  |-> Join(SubSeq(lines, 3, Len(lines)), NL)]]

\* The entries of the parsed blocks, in order.
RECURSIVE Entries(_)
Entries(parsed) ==
    IF parsed = <<>> THEN <<>>
    ELSE (IF Head(parsed).skip THEN <<>> ELSE <<Head(parsed).entry>>)
         \o Entries(Tail(parsed))

\* parse_srt_file(srt_path), on the content of the file.
parse_srt_file(content) ==
    IF content = Unreadable THEN Raised
    ELSE LET blocks == Split(Strip(content), BlankLine)
             parsed == [i \in 1..Len(blocks) |-> ParseBlock(blocks[i])]
         IN  IF \E i \in 1..Len(parsed) : ~parsed[i].ok THEN Raised
             ELSE [ok |-> TRUE, v |-> Entries(parsed)]

\* The line-break escape of the track format: a backslash and an N.
AssBreak == <<"\\", "N">>

\* The header srt_to_ass writes, up to the events; the style names the font.
AssHeader(font_name) ==
    <<"[Script Info]", "\n", "[V4+ Styles]", "\n", "Style: Default,">>
    \o font_name \o <<"\n", "[Events]", "\n">>

\* One dialogue line of srt_to_ass.
DialogueLine(sub) ==
    <<"Dialogue: 0", ",">> \o seconds_to_ass_time(sub.start) \o <<",">>
    \o seconds_to_ass_time(sub.end)
    \o <<",", "Default", ",", ",", "0", ",", "0", ",", "0", ",", ",">>
    \o Replace(sub.text, NL, AssBreak) \o NL

RECURSIVE DialogueLines(_)
DialogueLines(subs) ==
    IF subs = <<>> THEN <<>>
    ELSE DialogueLine(Head(subs)) \o DialogueLines(Tail(subs))

\* srt_to_ass(srt_path, ass_path, font_name): the content written to
\* ass_path, or raises as the parser does.
srt_to_ass(content, font_name) ==
    LET subtitles == parse_srt_file(content)
    IN  IF ~subtitles.ok THEN Raised
        ELSE [ok |-> TRUE, v |-> AssHeader(font_name) \o DialogueLines(subtitles.v)]

(***************************************************************************)
(* Part 6.  The state.                                                     *)
(***************************************************************************)

VARIABLES
    osName,     \* os.name of the host: "posix" or "nt"
    fs,         \* the file system: path -> file
    segs,       \* per call: segments_data
    outp,       \* per call: output_path, as [parent, file]
    pc,         \* per call: where synthesize_video is
    idx,        \* per call: the loop variable i (1-based)
    paths,      \* per call: segment_video_paths
    cl,         \* per call: position of the cleanup loop
    log,        \* per call: the external steps taken, in order
    warn,       \* per call: the paths whose deletion was reported as a warning
    touched,    \* the <<actor, creator>> pairs of every file a call replaced,
                \* moved, read as input or deleted
    srtDesc,    \* the blocks a subtitle file was written from
    srtIn,      \* the content of the subtitle file
    srtOut,     \* what parse_srt_file returned
    assOut,     \* what srt_to_ass wrote
    phase       \* where the subtitle conversion is

vars == <<osName, fs, segs, outp, pc, idx, paths, cl, log, warn, touched,
          srtDesc, srtIn, srtOut, assOut, phase>>

synthVars == <<osName, fs, segs, outp, pc, idx, paths, cl, log, warn, touched>>

srtVars == <<srtDesc, srtIn, srtOut, assOut, phase>>

\* The synthesize_video calls that may run.
Calls == {1, 2}

\* Longest segments_data of a single call.
MaxSegs == 3

\* Longest segments_data of each of two overlapping calls.
MaxSegsPar == 1

(***************************************************************************)
(* Part 7.  Files.                                                         *)
(***************************************************************************)

\* Files.  kind: what the file holds; by: the call that wrote it; src, of:
\* the call and the index of the segment an encoded file shows; parts: the
\* lines of a manifest, or the segments of a concatenated output.
Absent == [kind |-> "absent", by |-> 0, src |-> 0, of |-> 0, parts |-> <<>>]

\* An output file that was there before the call.
Old == [kind |-> "old", by |-> 0, src |-> 0, of |-> 0, parts |-> <<>>]

\* What a process that exits non-zero may leave at its output path.
Partial(c) == [kind |-> "partial", by |-> c, src |-> 0, of |-> 0, parts |-> <<>>]

\* The step-2 encode of segment i of call c.
Enc(c, i) == [kind |-> "enc", by |-> c, src |-> c, of |-> i, parts |-> <<>>]

\* The subtitled re-encode of file f.
Subtitled(c, f) == [kind |-> "sub", by |-> c, src |-> f.src, of |-> f.of, parts |-> <<>>]

Manifest(c, ps) == [kind |-> "list", by |-> c, src |-> c, of |-> 0, parts |-> ps]

Final(c, fs_) == [kind |-> "final", by |-> c, src |-> c, of |-> 0, parts |-> fs_]

\* A media file the encoder can read.
Playable(f) == f.kind \in {"enc", "sub"}

\* The files the calls create and own: artifacts and manifests.
Owned(f) == f.kind \in {"enc", "sub", "list"}

Parents == {1, 2}

\* os.path.join(temp_dir, f'segment_{i}.mp4')
SegPath(d, i) == [dir |-> d, name |-> "segment", n |-> i]

\* output_path + '.temp.mp4'
TempPath(d, i) == [dir |-> d, name |-> "segment.temp", n |-> i]

\* os.path.join(temp_dir, 'concat_list.txt')
ListPath(d) == [dir |-> d, name |-> "concat_list", n |-> 0]

OutPath(o) == [dir |-> o.parent, name |-> "output", n |-> o.file]

Paths ==
    {SegPath(d, i) : d \in Parents, i \in 1..MaxSegs}
    \cup {TempPath(d, i) : d \in Parents, i \in 1..MaxSegs}
    \cup {ListPath(d) : d \in Parents}
    \cup {OutPath([parent |-> d, file |-> f]) : d \in Parents, f \in {1, 2}}

\* temp_dir: 'temp' beside the output directory.
TempDir(c) == outp[c].parent

\* os.rename(src, dst) succeeds when src exists and, on Windows, dst does
\* not; elsewhere it replaces dst.
RenameOK(src, dst) ==
    /\ fs[src].kind # "absent"
    /\ osName = "posix" \/ fs[dst].kind = "absent"

Renamed(src, dst) == [fs EXCEPT ![dst] = fs[src], ![src] = Absent]

\* The record of call c using the files at the paths ps.
Touch(c, ps) ==
    touched \cup {<<c, fs[q].by>> : q \in {r \in ps : Owned(fs[r])}}

(***************************************************************************)
(* Part 8.  Subtitle files of a segment.                                   *)
(***************************************************************************)

\* "00:00:01,000"
Timecode(h, m, sec, ms) ==
    Pad2(h) \o <<":">> \o Pad2(m) \o <<":">> \o Pad2(sec) \o <<",">> \o Pad3(ms)

\* subtitle_path of a segment: None, a well-formed file, a file whose time
\* line does not parse, a file that cannot be read.
SubtitleKinds == {"none", "ok", "badtime", "unreadable"}

SubtitleFile(kind) ==
    CASE kind = "ok" ->
           <<"1">> \o NL \o Timecode(0, 0, 0, 0) \o Arrow \o Timecode(0, 0, 2, 500)
           \o NL \o <<"h", "i">> \o NL
      [] kind = "badtime" ->
           <<"1">> \o NL \o Timecode(0, 0, 0, 0) \o Arrow \o <<"0", "0", ":", "0", "2">>
           \o NL \o <<"h", "i">> \o NL
      [] OTHER -> Unreadable

SegSpecs == [video : BOOLEAN, sub : SubtitleKinds]

(***************************************************************************)
(* Part 9.  synthesize_video and process_single_segment, one action per    *)
(* external step (a probe, an encoder run, a rename, a file read or write, *)
(* a delete) of one call.                                                  *)
(***************************************************************************)

\* One external step: what was run, for which segment (or cleanup turn),
\* and whether it succeeded.
Ev(kind, i, ok) == [ev |-> kind, seg |-> i, ok |-> ok]

Logged(c, kind, i, ok) == [log EXCEPT ![c] = Append(@, Ev(kind, i, ok))]

\* The segment the loop is at.
Seg(c) == segs[c][idx[c]]

\* segment_output_path of the segment the loop is at, and its temp_output.
SegOut(c) == SegPath(TempDir(c), idx[c])

TempOut(c) == TempPath(TempDir(c), idx[c])

\* An exception leaves synthesize_video: nothing catches it.
Raise(c) == pc' = [pc EXCEPT ![c] = "raised"]

\* AfterEncode with the failed segment skipped instead of raised.
AfterEncodeSkipsFailed(c, rc) ==
    IF rc = 0 /\ Seg(c).sub # "none" THEN "rename" ELSE "append"

\* What follows the step-2 encoder run: a non-zero exit raises; then the
\* subtitle pass if subtitle_path is given, else the segment is done.
AfterEncode(c, rc) ==
    IF rc # 0 THEN "raised"
    ELSE IF Seg(c).sub # "none" THEN "rename"
    ELSE "append"

\* AfterBurn with the temporary file kept on success.
AfterBurnKeepsTemp(rc) == IF rc # 0 THEN "restore" ELSE "append"

\* What follows the subtitle encoder run: restore on a non-zero exit, else
\* discard the temporary file.
AfterBurn(rc) == IF rc # 0 THEN "restore" ELSE "discard"

\* What follows process_single_segment raising inside the loop.
AfterSegmentError(c) == "raised"

\* What follows the concatenation run.
AfterConcat(rc) == IF rc # 0 THEN "raised" ELSE "cleanup"

\* AfterCleanupError with the os.remove outside any try.
AfterCleanupErrorRaises(c) == "raised"

\* What follows a failed os.remove in the cleanup: the warning is printed
\* and the cleanup goes on.
AfterCleanupError(c) == IF cl[c] < Len(paths[c]) THEN "cleanup" ELSE "rmlist"

\* The order in which synthesize_video walks segments_data: the position
\* visited after position i.
NextIndex(c, i) == i + 1

\* What the encoder may leave at path p when it exits non-zero: the file
\* untouched, or a truncated one.
FailedOutputs(c, p) == {fs[p], Partial(c)}

\* Lines 446-458: the directories, the empty list.
Start(c) ==
    /\ pc[c] = "start"
    /\ pc' = [pc EXCEPT ![c] = IF Len(segs[c]) = 0 THEN "manifest" ELSE "probe"]
    /\ UNCHANGED <<srtVars, osName, fs, segs, outp, idx, paths, cl, log, warn, touched>>

\* Line 233: get_audio_duration raises when ffprobe fails.
ProbeAudio(c) ==
    /\ pc[c] = "probe"
    /\ \E ok \in BOOLEAN :
         /\ pc' = [pc EXCEPT ![c] = IF ~ok THEN AfterSegmentError(c)
                                    ELSE IF Seg(c).video THEN "vinfo" ELSE "encode"]
         /\ log' = Logged(c, "probe", idx[c], ok)
    /\ UNCHANGED <<srtVars, osName, fs, segs, outp, idx, paths, cl, warn, touched>>

\* Line 247: get_video_info raises when ffprobe fails.
ProbeVideo(c) ==
    /\ pc[c] = "vinfo"
    /\ \E ok \in BOOLEAN :
         /\ pc' = [pc EXCEPT ![c] = IF ok THEN "encode" ELSE AfterSegmentError(c)]
         /\ log' = Logged(c, "vinfo", idx[c], ok)
    /\ UNCHANGED <<srtVars, osName, fs, segs, outp, idx, paths, cl, warn, touched>>

\* Lines 305-309: the step-2 encoder run, writing output_path (-y).
Encode(c) ==
    /\ pc[c] = "encode"
    /\ \E rc \in {0, 1} :
         /\ IF rc = 0
            THEN fs' = [fs EXCEPT ![SegOut(c)] = Enc(c, idx[c])]
            ELSE \E f \in FailedOutputs(c, SegOut(c)) :
                    fs' = [fs EXCEPT ![SegOut(c)] = f]
         /\ pc' = [pc EXCEPT ![c] = AfterEncode(c, rc)]
         /\ log' = Logged(c, "encode", idx[c], rc = 0)
    /\ touched' = Touch(c, {SegOut(c)})
    /\ UNCHANGED <<srtVars, osName, segs, outp, idx, paths, cl, warn>>

\* Lines 313-314: os.rename(output_path, temp_output).
RenameToTemp(c) ==
    /\ pc[c] = "rename"
    /\ IF RenameOK(SegOut(c), TempOut(c))
       THEN /\ fs' = Renamed(SegOut(c), TempOut(c))
            /\ pc' = [pc EXCEPT ![c] = "parse"]
       ELSE /\ fs' = fs
            /\ Raise(c)
    /\ touched' = Touch(c, {SegOut(c), TempOut(c)})
    /\ log' = Logged(c, "rename", idx[c], RenameOK(SegOut(c), TempOut(c)))
    /\ UNCHANGED <<srtVars, osName, segs, outp, idx, paths, cl, warn>>

\* Line 367: parse_srt_file(subtitle_path).  (The font probe of lines
\* 341-364 before it changes nothing and catches its own errors.)
ParseSubtitles(c) ==
    /\ pc[c] = "parse"
    /\ pc' = [pc EXCEPT ![c] = IF parse_srt_file(SubtitleFile(Seg(c).sub)).ok
                               THEN "burn" ELSE AfterSegmentError(c)]
    /\ log' = Logged(c, "parse", idx[c], parse_srt_file(SubtitleFile(Seg(c).sub)).ok)
    /\ UNCHANGED <<srtVars, osName, fs, segs, outp, idx, paths, cl, warn, touched>>

\* Line 412: the subtitle encoder run, reading temp_output and writing
\* output_path.  It cannot succeed without a readable input.
Burn(c) ==
    /\ pc[c] = "burn"
    /\ \E rc \in {0, 1} :
         /\ rc = 0 => Playable(fs[TempOut(c)])
         /\ IF rc = 0
            THEN fs' = [fs EXCEPT ![SegOut(c)] = Subtitled(c, fs[TempOut(c)])]
            ELSE \E f \in FailedOutputs(c, SegOut(c)) :
                    fs' = [fs EXCEPT ![SegOut(c)] = f]
         /\ pc' = [pc EXCEPT ![c] = AfterBurn(rc)]
         /\ log' = Logged(c, "burn", idx[c], rc = 0)
    /\ touched' = Touch(c, {SegOut(c), TempOut(c)})
    /\ UNCHANGED <<srtVars, osName, segs, outp, idx, paths, cl, warn>>

\* Line 417: os.rename(temp_output, output_path).
Restore(c) ==
    /\ pc[c] = "restore"
    /\ IF RenameOK(TempOut(c), SegOut(c))
       THEN /\ fs' = Renamed(TempOut(c), SegOut(c))
            /\ pc' = [pc EXCEPT ![c] = "append"]
       ELSE /\ fs' = fs
            /\ Raise(c)
    /\ touched' = Touch(c, {SegOut(c), TempOut(c)})
    /\ log' = Logged(c, "restore", idx[c], RenameOK(TempOut(c), SegOut(c)))
    /\ UNCHANGED <<srtVars, osName, segs, outp, idx, paths, cl, warn>>

\* Line 420: os.remove(temp_output), outside any try.
Discard(c) ==
    /\ pc[c] = "discard"
    /\ \E ok \in BOOLEAN :
         /\ ok => fs[TempOut(c)].kind # "absent"
         /\ fs' = IF ok THEN [fs EXCEPT ![TempOut(c)] = Absent] ELSE fs
         /\ pc' = [pc EXCEPT ![c] = IF ok THEN "append" ELSE AfterSegmentError(c)]
         /\ log' = Logged(c, "discard", idx[c], ok)
    /\ touched' = Touch(c, {TempOut(c)})
    /\ UNCHANGED <<srtVars, osName, segs, outp, idx, paths, cl, warn>>

\* Collected with the path put first instead of last.
CollectedAtFront(c) == <<SegOut(c)>> \o paths[c]

\* Line 475: segment_video_paths.append(segment_output_path).
Collected(c) == Append(paths[c], SegOut(c))

\* Line 475 and the loop header of line 460.
AppendPath(c) ==
    /\ pc[c] = "append"
    /\ paths' = [paths EXCEPT ![c] = Collected(c)]
    /\ IF NextIndex(c, idx[c]) \in 1..Len(segs[c])
       THEN /\ idx' = [idx EXCEPT ![c] = NextIndex(c, idx[c])]
            /\ pc' = [pc EXCEPT ![c] = "probe"]
       ELSE /\ idx' = idx
            /\ pc' = [pc EXCEPT ![c] = "manifest"]
    /\ UNCHANGED <<srtVars, osName, fs, segs, outp, cl, log, warn, touched>>

\* Lines 481-486: the manifest, one line per collected path.
WriteManifest(c) ==
    /\ pc[c] = "manifest"
    /\ fs' = [fs EXCEPT ![ListPath(TempDir(c))] = Manifest(c, paths[c])]
    /\ touched' = Touch(c, {ListPath(TempDir(c))})
    /\ pc' = [pc EXCEPT ![c] = "concat"]
    /\ log' = Logged(c, "manifest", 0, TRUE)
    /\ UNCHANGED <<srtVars, osName, segs, outp, idx, paths, cl, warn>>

\* The files a manifest lists, in order.
Listed(m) == [k \in 1..Len(m.parts) |-> fs[m.parts[k]]]

\* Lines 489-504: the concatenation run, reading the manifest on disk and
\* the files it lists, writing output_path (-y).  It cannot succeed unless
\* every listed file is readable.
Concat(c) ==
    /\ pc[c] = "concat"
    /\ LET m == fs[ListPath(TempDir(c))]
       IN  /\ \E rc \in {0, 1} :
                /\ rc = 0 => /\ m.kind = "list"
                             /\ \A k \in 1..Len(m.parts) : Playable(fs[m.parts[k]])
                /\ IF rc = 0
                   THEN fs' = [fs EXCEPT ![OutPath(outp[c])] = Final(c, Listed(m))]
                   ELSE \E f \in FailedOutputs(c, OutPath(outp[c])) :
                           fs' = [fs EXCEPT ![OutPath(outp[c])] = f]
                /\ pc' = [pc EXCEPT ![c] = AfterConcat(rc)]
                /\ log' = Logged(c, "concat", 0, rc = 0)
           /\ touched' = Touch(c, {ListPath(TempDir(c))}
                                  \cup {m.parts[k] : k \in 1..Len(m.parts)})
    /\ cl' = [cl EXCEPT ![c] = 1]
    /\ UNCHANGED <<srtVars, osName, segs, outp, idx, paths, warn>>

\* Lines 508-512: one turn of the cleanup loop; a failed os.remove is
\* printed as a warning.
Cleanup(c) ==
    /\ pc[c] = "cleanup"
    /\ IF cl[c] > Len(paths[c])
       THEN /\ pc' = [pc EXCEPT ![c] = "rmlist"]
            /\ UNCHANGED <<fs, cl, log, warn, touched>>
       ELSE LET p == paths[c][cl[c]]
            IN  /\ \E ok \in BOOLEAN :
                     /\ ok => fs[p].kind # "absent"
                     /\ fs' = IF ok THEN [fs EXCEPT ![p] = Absent] ELSE fs
                     /\ warn' = IF ok THEN warn ELSE [warn EXCEPT ![c] = @ \cup {p}]
                     /\ pc' = [pc EXCEPT ![c] =
                                 IF ok THEN (IF cl[c] < Len(paths[c])
                                             THEN "cleanup" ELSE "rmlist")
                                 ELSE AfterCleanupError(c)]
                     /\ log' = Logged(c, "remove", cl[c], ok)
                /\ touched' = Touch(c, {p})
                /\ cl' = [cl EXCEPT ![c] = @ + 1]
    /\ UNCHANGED <<srtVars, osName, segs, outp, idx, paths>>

\* Lines 515-521: the manifest is removed (a failure is a warning) and
\* output_path returned.
RemoveManifest(c) ==
    /\ pc[c] = "rmlist"
    /\ LET p == ListPath(TempDir(c))
       IN  /\ \E ok \in BOOLEAN :
                /\ ok => fs[p].kind # "absent"
                /\ fs' = IF ok THEN [fs EXCEPT ![p] = Absent] ELSE fs
                /\ warn' = IF ok THEN warn ELSE [warn EXCEPT ![c] = @ \cup {p}]
                /\ log' = Logged(c, "rmlist", 0, ok)
           /\ touched' = Touch(c, {p})
    /\ pc' = [pc EXCEPT ![c] = "done"]
    /\ UNCHANGED <<srtVars, osName, segs, outp, idx, paths, cl>>

Next ==
    \/ \E c \in Calls : Start(c)
    \/ \E c \in Calls : ProbeAudio(c)
    \/ \E c \in Calls : ProbeVideo(c)
    \/ \E c \in Calls : Encode(c)
    \/ \E c \in Calls : RenameToTemp(c)
    \/ \E c \in Calls : ParseSubtitles(c)
    \/ \E c \in Calls : Burn(c)
    \/ \E c \in Calls : Restore(c)
    \/ \E c \in Calls : Discard(c)
    \/ \E c \in Calls : AppendPath(c)
    \/ \E c \in Calls : WriteManifest(c)
    \/ \E c \in Calls : Concat(c)
    \/ \E c \in Calls : Cleanup(c)
    \/ \E c \in Calls : RemoveManifest(c)

IdleSrt ==
    /\ srtDesc = <<>>
    /\ srtIn = <<>>
    /\ srtOut = Raised
    /\ assOut = Raised
    /\ phase = "idle"

\* One call, of up to MaxSegs segments, on a disk that holds nothing but,
\* perhaps, an earlier output file.
Init ==
    /\ osName \in {"posix", "nt"}
    /\ \E old \in BOOLEAN :
         fs = [q \in Paths |->
                 IF old /\ q = OutPath([parent |-> 1, file |-> 1]) THEN Old ELSE Absent]
    /\ \E k \in 0..MaxSegs :
         \E sd \in [1..k -> SegSpecs] : segs = [c \in Calls |-> IF c = 1 THEN sd ELSE <<>>]
    /\ outp = [c \in Calls |-> [parent |-> 1, file |-> 1]]
    /\ pc = [c \in Calls |-> IF c = 1 THEN "start" ELSE "idle"]
    /\ idx = [c \in Calls |-> 1]
    /\ paths = [c \in Calls |-> <<>>]
    /\ cl = [c \in Calls |-> 1]
    /\ log = [c \in Calls |-> <<>>]
    /\ warn = [c \in Calls |-> {}]
    /\ touched = {}
    /\ IdleSrt

Spec == Init /\ [][Next]_vars

\* Two calls whose steps interleave, each of up to MaxSegsPar segments.  The
\* second names the same output file, another file of the same directory,
\* or a file under another parent directory.
InitPar ==
    /\ osName \in {"posix", "nt"}
    /\ fs = [q \in Paths |-> Absent]
    /\ segs \in [Calls -> UNION {[1..k -> SegSpecs] : k \in 1..MaxSegsPar}]
    /\ \E o \in {[parent |-> 1, file |-> 1], [parent |-> 1, file |-> 2],
                 [parent |-> 2, file |-> 1]} :
         outp = [c \in Calls |-> IF c = 1 THEN [parent |-> 1, file |-> 1] ELSE o]
    /\ pc = [c \in Calls |-> "start"]
    /\ idx = [c \in Calls |-> 1]
    /\ paths = [c \in Calls |-> <<>>]
    /\ cl = [c \in Calls |-> 1]
    /\ log = [c \in Calls |-> <<>>]
    /\ warn = [c \in Calls |-> {}]
    /\ touched = {}
    /\ IdleSrt

SpecPar == InitPar /\ [][Next]_vars

(***************************************************************************)
(* Part 10.  Subtitle conversion on its own: a file is parsed, then        *)
(* rendered as a track.                                                    *)
(***************************************************************************)

\* Most blocks of a generated subtitle file.
MaxBlocks == 3

\* Most blocks of a generated well-formed subtitle file.
MaxAssBlocks == 2

\* Largest hour field of a generated timecode.
MaxHours == 1

\* Largest millisecond field: the format is HH:MM:SS,mmm.
MaxMillis == 999

\* Millisecond fields that are binary fractions of a second.
DyadicMillis == {0, 125, 500, 875}

\* The text of a block: one line, or two.
TextChoices == {<< <<"a">> >>, << <<"a", ",", "b">>, <<"c">> >>}

Tc(h, m, sec, ms) == [h |-> h, m |-> m, s |-> sec, ms |-> ms]

TcString(t) == Timecode(t.h, t.m, t.s, t.ms)

\* A block of the format: index line, time line, text lines.
ValidBlock(i, start, end, text) ==
    [kind |-> "valid", index |-> i, start |-> start, end |-> end, text |-> text]

\* A block of fewer than three lines: the index alone ("one"), the index and
\* a time line ("two"), the index and a text line ("twotext").
ShortBlock(kind) ==
    [kind |-> kind, index |-> 9, start |-> Tc(0, 0, 7, 0), end |-> Tc(0, 0, 8, 0),
     text |-> << <<"z">> >>]

TimeLine(d) == TcString(d.start) \o Arrow \o TcString(d.end)

BlockLines(d) ==
    CASE d.kind = "valid"   -> <<Str(d.index), TimeLine(d)>> \o d.text
      [] d.kind = "one"     -> <<Str(d.index)>>
      [] d.kind = "two"     -> <<Str(d.index), TimeLine(d)>>
      [] d.kind = "twotext" -> <<Str(d.index)>> \o d.text

\* The file: the blocks, a blank line between them, and what ends the file.
FileContent(descs, trailing) ==
    Join([i \in 1..Len(descs) |-> Join(BlockLines(descs[i]), NL)], BlankLine)
    \o trailing

\* descs with d put after its first pos blocks.
Inserted(descs, d, pos) ==
    SubSeq(descs, 1, pos) \o <<d>> \o SubSeq(descs, pos + 1, Len(descs))

IdleSynth ==
    /\ osName = "posix"
    /\ fs = [q \in Paths |-> Absent]
    /\ segs = [c \in Calls |-> <<>>]
    /\ outp = [c \in Calls |-> [parent |-> 1, file |-> 1]]
    /\ pc = [c \in Calls |-> "idle"]
    /\ idx = [c \in Calls |-> 1]
    /\ paths = [c \in Calls |-> <<>>]
    /\ cl = [c \in Calls |-> 1]
    /\ log = [c \in Calls |-> <<>>]
    /\ warn = [c \in Calls |-> {}]
    /\ touched = {}

\* Files of up to MaxBlocks well-formed blocks and at most one block of
\* fewer than three lines, at any position.
InitSrt ==
    /\ IdleSynth
    /\ \E n \in 0..MaxBlocks, ms \in DyadicMillis, mal \in {"none", "one", "two", "twotext"} :
         \E texts \in [1..n -> TextChoices], pos \in 0..n, trailing \in {<<>>, NL} :
            LET valid == [i \in 1..n |->
                            ValidBlock(i, Tc(0, 0, i, ms), Tc(0, 1, i, 500), texts[i])]
            IN  /\ srtDesc = IF mal = "none" THEN valid
                             ELSE Inserted(valid, ShortBlock(mal), pos)
                /\ mal = "none" => pos = 0
                /\ srtIn = FileContent(srtDesc, trailing)
    /\ srtOut = Raised
    /\ assOut = Raised
    /\ phase = "file"

\* Well-formed files of up to MaxAssBlocks blocks; the first block runs
\* over every millisecond field.
InitAss ==
    /\ IdleSynth
    /\ \E n \in 1..MaxAssBlocks, h \in 0..MaxHours, ms \in 0..MaxMillis, text \in TextChoices :
         /\ srtDesc = [i \in 1..n |->
                         IF i = 1 THEN ValidBlock(1, Tc(h, 1, 2, ms), Tc(h, 1, 3, ms), text)
                         ELSE ValidBlock(i, Tc(h, 1, 2 + 2 * i, 0), Tc(h, 1, 3 + 2 * i, 500),
                                         << <<"d">> >>)]
         /\ srtIn = FileContent(srtDesc, NL)
    /\ srtOut = Raised
    /\ assOut = Raised
    /\ phase = "file"

\* The font the track is styled with (the default of srt_to_ass).
FontName == <<"STHeiti Medium">>

\* parse_srt_file(srt_path).
ParseFile ==
    /\ phase = "file"
    /\ srtOut' = parse_srt_file(srtIn)
    /\ phase' = "parsed"
    /\ UNCHANGED <<synthVars, srtDesc, srtIn, assOut>>

\* srt_to_ass(srt_path, ass_path).
RenderTrack ==
    /\ phase = "parsed"
    /\ assOut' = srt_to_ass(srtIn, FontName)
    /\ phase' = "rendered"
    /\ UNCHANGED <<synthVars, srtDesc, srtIn, srtOut>>

NextSrt == ParseFile \/ RenderTrack

SpecSrt == InitSrt /\ [][NextSrt]_vars

SpecAss == InitAss /\ [][NextSrt]_vars

(***************************************************************************)
(* Part 11.  Properties of a single synthesize_video call (call 1 of       *)
(* Spec).                                                                  *)
(***************************************************************************)

\* The call did the step `kind` for segment (or cleanup turn) i, with
\* outcome ok.
Happened(kind, i, ok) == \E k \in 1..Len(log[1]) : log[1][k] = Ev(kind, i, ok)

Ran(kind, i) == \E ok \in BOOLEAN : Happened(kind, i, ok)

Exited == pc[1] \in {"done", "raised"}

OutFile == fs[OutPath(outp[1])]

ArtifactPaths == {SegPath(1, i) : i \in 1..MaxSegs} \cup {TempPath(1, i) : i \in 1..MaxSegs}

IsEncode(e) == e.ev = "encode"

\* C1: when the call has exited, normally or by raising, every artifact it
\* created (an encoded segment file or its pre-subtitle .temp.mp4 sibling)
\* has been consumed by a successful concatenation or removed: none that
\* was not concatenated is still on disk.
C1_NoArtifactOutlivesCall ==
    Exited =>
        \A q \in ArtifactPaths :
            Playable(fs[q]) =>
                /\ Happened("concat", 0, TRUE)
                /\ \E k \in 1..Len(paths[1]) : paths[1][k] = q

\* C2: if the audio probe or the encoder run of segment j fails, the call
\* raises there: that step is its last, no segment after j was probed or
\* encoded, no manifest was written, the concatenation never ran, and the
\* output path holds what it held before the call.
C2_EncodeFailureAborts ==
    \A k \in 1..Len(log[1]) :
        (log[1][k].ev \in {"probe", "encode"} /\ ~log[1][k].ok) =>
            /\ pc[1] = "raised"
            /\ k = Len(log[1])
            /\ \A m \in 1..Len(log[1]) :
                 /\ log[1][m].ev \in {"probe", "vinfo", "encode"}
                      => log[1][m].seg <= log[1][k].seg
                 /\ log[1][m].ev \notin {"manifest", "concat"}
            /\ fs[ListPath(1)] = Absent
            /\ OutFile.kind \in {"absent", "old"}

\* Segment 2 of 3 failed to encode after segment 1 was encoded.
C2_Witness ==
    /\ Len(segs[1]) = 3
    /\ Happened("encode", 1, TRUE)
    /\ Happened("encode", 2, FALSE)
    /\ pc[1] = "raised"

\* C3: if the subtitle pass of segment i exits non-zero, the segment does not
\* raise: the restore succeeds, after it the segment's output path holds
\* the pre-subtitle encode and no .temp.mp4 is left, that path is the i-th
\* line of the manifest, and the concatenated output shows the pre-subtitle
\* encode as its i-th segment.
C3_BurnFailureDegrades ==
    \A i \in 1..MaxSegs :
        Happened("burn", i, FALSE) =>
            /\ ~Happened("restore", i, FALSE)
            /\ (Happened("restore", i, TRUE) /\ ~Happened("concat", 0, TRUE)) =>
                  /\ fs[SegPath(1, i)] = Enc(1, i)
                  /\ fs[TempPath(1, i)] = Absent
            /\ fs[ListPath(1)].kind = "list" => fs[ListPath(1)].parts[i] = SegPath(1, i)
            /\ Happened("concat", 0, TRUE) => OutFile.parts[i] = Enc(1, i)

\* C4: when the subtitle file of segment i cannot be read or parsed, the
\* error surfaces before anything was done for the segment: no encoder run,
\* no rename, no file at its output path or its .temp.mp4 path.
C4_InputErrorBeforeAnyWork ==
    \A i \in 1..MaxSegs :
        Happened("parse", i, FALSE) =>
            /\ ~Ran("encode", i)
            /\ ~Ran("rename", i)
            /\ fs[SegPath(1, i)] = Absent
            /\ fs[TempPath(1, i)] = Absent

\* C5: after a call that returned with no deletion failing, the output path
\* holds the concatenated output and nothing else is on disk: no segment
\* file, no .temp.mp4 file, no manifest.
C5_SuccessLeavesOnlyOutput ==
    (pc[1] = "done" /\ warn[1] = {}) =>
        /\ OutFile.kind = "final"
        /\ \A q \in Paths \ {OutPath(outp[1])} : fs[q] = Absent

\* A successful call of two or more segments, one subtitled, one whose
\* subtitle pass failed and was restored.
C5_Witness ==
    /\ pc[1] = "done"
    /\ warn[1] = {}
    /\ Len(segs[1]) >= 2
    /\ Happened("discard", 1, TRUE)
    /\ Happened("restore", 2, TRUE)

\* C6: the encoder runs go through the segments in input order, each once;
\* the manifest is written only when all K segments are encoded and
\* collected; it lists the K segment paths in input order, each holding the
\* segment of its index; and the concatenated output shows the K segments
\* in input order.
C6_InputOrder ==
    LET K    == Len(segs[1])
        runs == SelectSeq(log[1], IsEncode)
    IN  /\ \A j \in 1..Len(runs) : runs[j].seg = j
        /\ Happened("manifest", 0, TRUE) =>
              /\ \A i \in 1..K : Happened("encode", i, TRUE)
              /\ paths[1] = [i \in 1..K |-> SegPath(1, i)]
        /\ pc[1] = "concat" =>
              /\ fs[ListPath(1)] = Manifest(1, [i \in 1..K |-> SegPath(1, i)])
              /\ \A i \in 1..K : /\ Playable(fs[SegPath(1, i)])
                                 /\ fs[SegPath(1, i)].of = i
        /\ Happened("concat", 0, TRUE) =>
              /\ Len(OutFile.parts) = K
              /\ \A i \in 1..K : OutFile.parts[i].src = 1 /\ OutFile.parts[i].of = i

\* Three segments were concatenated.
C6_Witness ==
    /\ Len(segs[1]) = 3
    /\ Happened("concat", 0, TRUE)
    /\ pc[1] = "cleanup"

\* C7: once the concatenation has succeeded the call cannot raise; when it
\* returns, a deletion was attempted on every collected segment file and on
\* the manifest, whichever of them failed, and the output is in place.
C7_CleanupErrorsNotFatal ==
    Happened("concat", 0, TRUE) =>
        /\ pc[1] \in {"cleanup", "rmlist", "done"}
        /\ pc[1] = "done" =>
              /\ \A k \in 1..Len(segs[1]) : Ran("remove", k)
              /\ Ran("rmlist", 0)
              /\ OutFile.kind = "final"

\* The call returned although the first deletion failed; the second
\* deletion was still made.
C7_Witness ==
    /\ pc[1] = "done"
    /\ Len(segs[1]) >= 2
    /\ Happened("remove", 1, FALSE)
    /\ Happened("remove", 2, TRUE)
    /\ SegPath(1, 1) \in warn[1]

(***************************************************************************)
(* Part 12.  Two overlapping calls (SpecPar).                              *)
(***************************************************************************)

\* C10: no call replaces, moves, reads as input or deletes an artifact or a
\* manifest that the other call created.
C10_ExclusiveOwnership == \A t \in touched : t[1] = t[2]

(***************************************************************************)
(* Part 13.  The subtitle parser and the track round trip (SpecSrt,        *)
(* SpecAss).                                                               *)
(***************************************************************************)

\* The seconds of a timecode whose millisecond field is a multiple of 125,
\* exactly: (8 * whole seconds + ms / 125) / 8.
ExactSeconds(t) ==
    ShiftLeft(Bits(8 * (t.h * 3600 + t.m * 60 + t.s) + t.ms \div 125), FracBits - 3)

IsValid(d) == d.kind = "valid"

\* C8: a file of N well-formed blocks and at most one block of fewer than
\* three lines, at any position, parses without raising to exactly N
\* entries, in file order, each with the start, the end and the text (line
\* breaks kept) of its block.
C8_ShortBlocksSkipped ==
    phase # "file" =>
        LET valid == SelectSeq(srtDesc, IsValid)
        IN  /\ srtOut.ok
            /\ Len(srtOut.v) = Len(valid)
            /\ \A i \in 1..Len(valid) :
                 srtOut.v[i] = [start |-> ExactSeconds(valid[i].start),
                                end   |-> ExactSeconds(valid[i].end),
                                text  |-> Join(valid[i].text, NL)]

\* Two well-formed blocks with a two-line block between them were parsed.
C8_Witness ==
    /\ phase = "parsed"
    /\ Len(srtDesc) = 3
    /\ srtDesc[2].kind = "two"
    /\ srtDesc[1].kind = "valid" /\ srtDesc[3].kind = "valid"
    /\ Len(srtDesc[3].text) = 2
    /\ srtOut.ok /\ Len(srtOut.v) = 2

\* Reading a rendered track back: the dialogue lines, their start, end and
\* text fields, and the fields of an H:MM:SS.CC timecode.
IsDialogue(line) == line # <<>> /\ Head(line) = "Dialogue: 0"

ReadDialogue(line) ==
    LET f == Split(line, <<",">>)
    IN  [start |-> f[2], end |-> f[3], text |-> Join(SubSeq(f, 10, Len(f)), <<",">>)]

ReadAssTime(t) ==
    LET a == Split(t, <<":">>)
        b == Split(a[3], <<".">>)
    IN  [h |-> IntOf(a[1]), m |-> IntOf(a[2]), s |-> IntOf(b[1]), cs |-> IntOf(b[2])]

\* A timecode to centisecond precision.
Centis(t) == [h |-> t.h, m |-> t.m, s |-> t.s, cs |-> t.ms \div 10]

\* C9: parsing a well-formed file, rendering it as a track and reading the
\* dialogue lines back gives as many entries, in order, each with the hours,
\* minutes and seconds of its start and end and mmm div 10 as centiseconds,
\* and its text once the line-break escape is mapped back to a newline; and
\* "00:01:02,500" is 62.5 seconds, rendered "0:01:02.50".
C9_TrackRoundTrip ==
    /\ srt_time_to_seconds(Timecode(0, 1, 2, 500))
         = [ok |-> TRUE, v |-> ExactSeconds(Tc(0, 1, 2, 500))]
    /\ seconds_to_ass_time(ExactSeconds(Tc(0, 1, 2, 500)))
         = <<"0", ":", "0", "1", ":", "0", "2", ".", "5", "0">>
    /\ phase = "rendered" =>
         /\ assOut.ok
         /\ LET d == SelectSeq(Split(assOut.v, NL), IsDialogue)
            IN  /\ Len(d) = Len(srtDesc)
                /\ \A i \in 1..Len(d) :
                     LET r == ReadDialogue(d[i])
                     IN  /\ ReadAssTime(r.start) = Centis(srtDesc[i].start)
                         /\ ReadAssTime(r.end) = Centis(srtDesc[i].end)
                         /\ Replace(r.text, AssBreak, NL) = Join(srtDesc[i].text, NL)

=============================================================================
